---- MODULE Spec2Model ----
(***************************************************************************)
(* deepcli: the SSE stream adapter of src/api.rs                           *)
(* (ApiClient::call_api_with_history_stream) and the interactive chat loop *)
(* of src/main.rs (main): history, budget-triggered summarization and      *)
(* automatic continuation.                                                 *)
(*                                                                         *)
(* Three specifications share this module:                                 *)
(*   Spec        the chat loop of main, one action per await point;        *)
(*   StreamSpec  the stream adapter fed by a transport that splits the     *)
(*               response body into chunks at arbitrary places;            *)
(*   HeurSpec    the truncation heuristic of main applied to replies       *)
(*               built by push_str.                                        *)
(***************************************************************************)
EXTENDS Integers, Sequences, FiniteSets, TLC

VARIABLES
  \* ---- main (src/main.rs) ----
  pc,                  \* where main stands: prompt, sumReq, sumStream, chatReq, chatStream, exit
  history,             \* Vec<Message>
  messages,            \* Vec<Message> sent with the next chat request
  reply,               \* String: the reply buffer of the current iteration
  auto_continue_count, \* usize
  last_reason,         \* Option<String>
  summary,             \* String: the collected summary
  sent,                \* the request issued last: its kind and message list
  turn,                \* this turn's summarization outcome, and the history the turn
                       \* started from, kept until the first chat request of the turn
  decision,            \* the last continuation decision taken at the end of a chat stream
  lastInput,           \* what the line read last was: none, blank, quit, clear, query
  streams,             \* requests issued so far
  items,               \* items consumed from the stream that is open
  texts,               \* items with a non-empty text consumed so far
  open,                \* response streams that are open (bound and not dropped yet)
  seen,                \* the finish_reason of each item of the chat stream that is open
  deltas,              \* items with a non-empty text received from that stream
  \* ---- stream adapter (src/api.rs) ----
  body,                \* the response body of the run, as wire units
  wire,                \* the part of the body the transport has not delivered yet
  buffer,              \* Vec<u8>: the decode buffer
  finished,            \* bool
  apc,                 \* where the adapter stands: idle, await, closed
  out,                 \* the items the stream has yielded
  run,                 \* 1: reference run, one chunk per unit; 2: arbitrary chunks
  firstOut,            \* the output of the reference run
  dropped,             \* whether run 2 reads the body with one no-event line removed
  status,              \* the HTTP status of the response
  \* ---- truncation heuristic (src/main.rs) ----
  hpc,                 \* build: the reply is being received; done: decided
  hreply,              \* String: the reply buffer
  hlast,               \* Option<String>: last_reason
  hn,                  \* items pushed so far
  hresult              \* should_continue

mainVars == <<pc, history, messages, reply, auto_continue_count, last_reason,
              summary, sent, turn, decision, lastInput, streams, items, texts,
              open, seen, deltas>>
streamVars == <<body, wire, buffer, finished, apc, out, run, firstOut, dropped,
                status>>
heurVars == <<hpc, hreply, hlast, hn, hresult>>
vars == <<mainVars, streamVars, heurVars>>

(***************************************************************************)
(* Bounds of the model.                                                    *)
(***************************************************************************)
MaxStreams == 8         \* requests issued in one session
MaxItemsPerStream == 2  \* items one stream of the chat loop yields
MaxTextItems == 2       \* items with a non-empty text the streams of one session yield
MaxLines == 3           \* lines of a response body
MaxPushes == 3          \* push_str calls that build a reply for the heuristic

(***************************************************************************)
(* Option<T>                                                               *)
(***************************************************************************)
None == [some |-> FALSE, v |-> <<>>]
Some(x) == [some |-> TRUE, v |-> x]

(***************************************************************************)
(* Rust strings.  A String is a sequence of runs [c, n], the character c   *)
(* repeated n >= 1 times, adjacent runs holding different characters: the  *)
(* representation is canonical, so two strings are equal exactly when      *)
(* their values are.  A character is named by itself when it is ASCII and  *)
(* by its code point otherwise ("U+FF0C" is the full-width comma).         *)
(***************************************************************************)
CharRun(c, n) == [c |-> c, n |-> n]

\* the concatenation of two strings in canonical form: the last run of a and
\* the first run of b are merged when they are runs of the same character
Joined(a, b) ==
  IF a = <<>> THEN b
  ELSE IF b = <<>> THEN a
  ELSE IF a[Len(a)].c = b[1].c
       THEN SubSeq(a, 1, Len(a) - 1)
              \o <<CharRun(b[1].c, a[Len(a)].n + b[1].n)>>
              \o Tail(b)
       ELSE a \o b

\* String::push_str, and the concatenation format! performs.  The two
\* arguments are bound as values, so that each is evaluated once however
\* deep the concatenations nest.
PushStr(a, b) == CHOOSE r \in {Joined(x, y) : x \in {a}, y \in {b}} : TRUE

RECURSIVE Lit(_)
\* a string literal, from its characters
Lit(cs) ==
  IF cs = <<>> THEN <<>>
  ELSE PushStr(Lit(SubSeq(cs, 1, Len(cs) - 1)), <<CharRun(cs[Len(cs)], 1)>>)

\* the characters of this model whose UTF-8 encoding takes three bytes
\* (U+0800 .. U+FFFF); every other character of the model is ASCII
ThreeByteChars ==
  {"U+3001", "U+3002", "U+4E00", "U+4E0B", "U+4E2A", "U+4E2D", "U+4E8E",
   "U+4EE5", "U+4F60", "U+4FBF", "U+4FDD", "U+4FE1", "U+5173", "U+5185",
   "U+52A9", "U+5386", "U+53F2", "U+540E", "U+597D", "U+5BB9", "U+5BF9",
   "U+603B", "U+606F", "U+624B", "U+6458", "U+6587", "U+662F", "U+7528",
   "U+7559", "U+7ED3", "U+7EE7", "U+7EED", "U+8981", "U+8BDD", "U+8BF7",
   "U+952E", "U+FF01", "U+FF08", "U+FF0C", "U+FF1A", "U+FF1F"}

Utf8Len(c) == IF c \in ThreeByteChars THEN 3 ELSE 1

RECURSIVE CharsCount(_)
\* text.chars().count()
CharsCount(s) == IF s = <<>> THEN 0 ELSE s[1].n + CharsCount(Tail(s))

RECURSIVE ByteLen(_)
\* str::len: the length in bytes
ByteLen(s) == IF s = <<>> THEN 0 ELSE s[1].n * Utf8Len(s[1].c) + ByteLen(Tail(s))

\* char::is_whitespace, on the characters of the model
IsWhitespace(c) == c \in {" ", "\n", "\r", "\t"}

RECURSIVE TrimStart(_)
TrimStart(s) ==
  IF s # <<>> /\ IsWhitespace(s[1].c) THEN TrimStart(Tail(s)) ELSE s

RECURSIVE TrimEnd(_)
TrimEnd(s) ==
  IF s # <<>> /\ IsWhitespace(s[Len(s)].c)
  THEN TrimEnd(SubSeq(s, 1, Len(s) - 1))
  ELSE s

\* str::trim
Trim(s) == TrimEnd(TrimStart(s))

\* str::ends_with(pat), pat a non-empty string
EndsWith(s, pat) ==
  /\ Len(pat) <= Len(s)
  /\ LET off == Len(s) - Len(pat) IN
       /\ s[off + 1].c = pat[1].c
       /\ IF Len(pat) = 1 THEN s[off + 1].n >= pat[1].n
          ELSE /\ s[off + 1].n >= pat[1].n
               /\ \A i \in 2..Len(pat) : s[off + i] = pat[i]

(***************************************************************************)
(* main.rs: constants and literals                                         *)
(***************************************************************************)
MAX_AUTO_CONTINUE == 5

\* get_model_max_input_tokens: the same budget for every model
ModelMaxInputTokens == 65536

\* "You are a helpful assistant."
SystemPrompt ==
  Lit(<<"Y", "o", "u", " ", "a", "r", "e", " ", "a", " ", "h", "e", "l", "p",
        "f", "u", "l", " ", "a", "s", "s", "i", "s", "t", "a", "n", "t", ".">>)

\* the system prompt of the summary request (13 characters, ends in U+3002)
SummarySystemPrompt ==
  Lit(<<"U+4F60", "U+662F", "U+4E00", "U+4E2A", "U+5BF9", "U+8BDD", "U+5386",
        "U+53F2", "U+6458", "U+8981", "U+52A9", "U+624B", "U+3002">>)

\* the text before {} in the summary prompt (30 characters, ends in U+FF1A "\n")
SummaryPromptPrefix ==
  Lit(<<"U+8BF7", "U+7528", "U+4E2D", "U+6587", "U+603B", "U+7ED3", "U+4EE5",
        "U+4E0B", "U+5BF9", "U+8BDD", "U+5185", "U+5BB9", "U+FF0C", "U+4FDD",
        "U+7559", "U+5173", "U+952E", "U+4FE1", "U+606F", "U+FF0C", "U+4FBF",
        "U+4E8E", "U+540E", "U+7EED", "U+7EE7", "U+7EED", "U+5BF9", "U+8BDD",
        "U+FF1A", "\n">>)

\* the summary marker: "[", four ideographs, "]", " "
SummaryMarker ==
  Lit(<<"[", "U+5386", "U+53F2", "U+6458", "U+8981", "]", " ">>)

\* the content of the synthetic "please continue" user message
ContinueText == Lit(<<"U+8BF7", "U+7EE7", "U+7EED">>)

QuitCommand == Lit(<<"\\", "q">>)
ClearCommand == Lit(<<"\\", "c">>)

\* Message::Simple { role, content }
Msg(role, content) == [role |-> role, content |-> content]

SystemMessage == Msg("system", SystemPrompt)

\* the characters of a role, as format!("{}", role) writes them
RoleText(role) ==
  CASE role = "user" -> Lit(<<"u", "s", "e", "r">>)
    [] role = "assistant" -> Lit(<<"a", "s", "s", "i", "s", "t", "a", "n", "t">>)
    [] OTHER -> Lit(<<"s", "y", "s", "t", "e", "m">>)

\* estimate_tokens without the + 1
EstimateTokensRoundedDown(text) == CharsCount(text) \div 4

\* estimate_tokens
EstimateTokens(text) == (CharsCount(text) \div 4) + 1

RECURSIVE TotalTokens(_)
\* total_tokens: the sum of estimate_tokens over the messages
TotalTokens(ms) ==
  IF ms = <<>> THEN 0 ELSE EstimateTokens(ms[1].content) + TotalTokens(Tail(ms))

RECURSIVE JoinLines(_)
\* Vec<String>::join("\n")
JoinLines(ls) ==
  IF ls = <<>> THEN <<>>
  ELSE IF Len(ls) = 1 THEN ls[1]
  ELSE PushStr(PushStr(ls[1], Lit(<<"\n">>)), JoinLines(Tail(ls)))

RECURSIVE HistoryLinesWithSystem(_)
\* HistoryLines without the filter on the role
HistoryLinesWithSystem(ms) ==
  IF ms = <<>> THEN <<>>
  ELSE <<PushStr(PushStr(RoleText(ms[1].role), Lit(<<":", " ">>)), ms[1].content)>>
         \o HistoryLinesWithSystem(Tail(ms))

RECURSIVE HistoryLines(_)
\* "{role}: {content}" for every user and assistant message, in order
HistoryLines(ms) ==
  IF ms = <<>> THEN <<>>
  ELSE IF ms[1].role \in {"user", "assistant"}
       THEN <<PushStr(PushStr(RoleText(ms[1].role), Lit(<<":", " ">>)), ms[1].content)>>
              \o HistoryLines(Tail(ms))
       ELSE HistoryLines(Tail(ms))

\* history_text
HistoryText(ms) == JoinLines(HistoryLines(ms))

\* the message list of the summary request
SummaryRequestMessages(ms) ==
  <<Msg("system", SummarySystemPrompt),
    Msg("user", PushStr(SummaryPromptPrefix, HistoryText(ms)))>>

\* the history after it is replaced by the summary
SummaryHistory(s) == <<Msg("user", PushStr(SummaryMarker, s))>>

\* LooksTruncated without the trim of the reply
LooksTruncatedUntrimmed(r) ==
  \/ EndsWith(r, Lit(<<"U+FF08">>))
  \/ EndsWith(r, Lit(<<"U+3001">>))
  \/ EndsWith(r, Lit(<<"U+FF0C">>))
  \/ EndsWith(r, Lit(<<"U+FF1A">>))
  \/ EndsWith(r, Lit(<<"-">>))
  \/ EndsWith(r, Lit(<<"*", "*">>))
  \/ /\ ByteLen(r) > 100
     /\ ~EndsWith(r, Lit(<<"U+3002">>))
     /\ ~EndsWith(r, Lit(<<"U+FF01">>))
     /\ ~EndsWith(r, Lit(<<"U+FF1F">>))

\* the truncation heuristic applied when no finish_reason was captured
LooksTruncated(r) ==
  LET trimmed == Trim(r) IN
    \/ EndsWith(trimmed, Lit(<<"U+FF08">>))
    \/ EndsWith(trimmed, Lit(<<"U+3001">>))
    \/ EndsWith(trimmed, Lit(<<"U+FF0C">>))
    \/ EndsWith(trimmed, Lit(<<"U+FF1A">>))
    \/ EndsWith(trimmed, Lit(<<"-">>))
    \/ EndsWith(trimmed, Lit(<<"*", "*">>))
    \/ /\ ByteLen(trimmed) > 100
       /\ ~EndsWith(trimmed, Lit(<<"U+3002">>))
       /\ ~EndsWith(trimmed, Lit(<<"U+FF01">>))
       /\ ~EndsWith(trimmed, Lit(<<"U+FF1F">>))

\* the finish reasons "length" and "stop": the model keeps each of the two
\* words as one unit, on the wire and in strings
LengthReason == Lit(<<"length">>)
StopReason == Lit(<<"stop">>)

\* the first finish_reason of the stream is kept
TrackFirstReason(last, reason) == IF last.some THEN last ELSE reason

\* if reason.is_some() { last_reason = reason; }
TrackReason(last, reason) == IF reason.some THEN reason ELSE last

\* should_continue consulting the heuristic whatever the finish reason
ShouldContinueOrHeuristic(reason, r) ==
  (reason.some /\ reason.v = LengthReason) \/ LooksTruncated(r)

\* should_continue
ShouldContinue(reason, r) ==
  IF reason.some THEN reason.v = LengthReason ELSE LooksTruncated(r)

\* the guard of the continuation step, off by one
MayContinueInclusive(count) == count <= MAX_AUTO_CONTINUE

\* the guard of the continuation step
MayContinue(count) == count < MAX_AUTO_CONTINUE

(***************************************************************************)
(* main.rs: the session loop.  One action per await point of main: the     *)
(* code between two awaits runs without interruption.                      *)
(***************************************************************************)
\* the lines stdin may deliver: blank, the two commands, a short query and a
\* query of 262111 characters, which with the system message is estimated at
\* ModelMaxInputTokens exactly: alone it fits the budget, and with any other
\* message in the history it exceeds it
Inputs ==
  {Lit(<<" ", "\n">>),
   Lit(<<"\\", "q", "\n">>),
   Lit(<<"\\", "c", "\n">>),
   Lit(<<"h", "i", "\n">>),
   <<CharRun("a", 262111), CharRun("\n", 1)>>}

\* the text deltas a stream may carry: empty, and an ideograph followed by a
\* full-width comma
Deltas == {<<>>, Lit(<<"U+597D", "U+FF0C">>)}

\* the finish_reason an event may carry
Reasons == {None, Some(StopReason), Some(LengthReason)}

\* a turn issues at most one summary request, one chat request and
\* MAX_AUTO_CONTINUE continuation requests
MaxStreamsPerTurn == MAX_AUTO_CONTINUE + 2

\* the request error leaves main, as the ? operator would
Propagated == "exit"

\* Err(e) of a chat request: the error is printed and `break` leaves the
\* continuation loop; the session loop goes on to its next iteration
Broken == "prompt"

\* the reply buffer is not emptied
NotCleared(r) == r

\* String::clear
Cleared(r) == <<>>

\* Ok(mut stream): the arm binds the response stream
Acquire(n) == n + 1

\* the stream is never dropped
ReleaseNever(n) == n

\* the end of the Ok arm: the stream bound by the arm is dropped
Release(n) == n - 1

NoRequest == [kind |-> "none", messages |-> <<>>]
NoTurn == [sum |-> "none", orig |-> <<>>, base |-> 1]
NoDecision ==
  [made |-> FALSE, err |-> FALSE, reason |-> None, reply |-> <<>>,
   count |-> 0, cont |-> FALSE, seen |-> <<>>, deltas |-> 0, before |-> 0]

MainInit ==
  /\ pc = "prompt"
  /\ history = <<>>
  /\ messages = <<>>
  /\ reply = <<>>
  /\ auto_continue_count = 0
  /\ last_reason = None
  /\ summary = <<>>
  /\ sent = NoRequest
  /\ turn = NoTurn
  /\ decision = NoDecision
  /\ lastInput = "none"
  /\ streams = 0
  /\ items = 0
  /\ texts = 0
  /\ open = 0
  /\ seen = <<>>
  /\ deltas = 0

\* ReplaceBySummary without the rebuild of messages
ReplaceBySummaryStale(s, outcome) ==
  /\ history' = SummaryHistory(s)
  /\ UNCHANGED messages
  /\ reply' = <<>>
  /\ auto_continue_count' = 0
  /\ turn' = [turn EXCEPT !.sum = outcome, !.base = 1]
  /\ pc' = "chatReq"

\* ReplaceBySummary without history.clear()
ReplaceBySummaryKeeping(s, outcome) ==
  /\ history' = history \o SummaryHistory(s)
  /\ messages' = <<SystemMessage>> \o history \o SummaryHistory(s)
  /\ reply' = <<>>
  /\ auto_continue_count' = 0
  /\ turn' = [turn EXCEPT !.sum = outcome, !.base = 1]
  /\ pc' = "chatReq"

\* history.clear(); history.push(summary message); messages rebuilt; then the
\* continuation loop is entered with an empty reply and a zero counter
ReplaceBySummary(s, outcome) ==
  /\ history' = SummaryHistory(s)
  /\ messages' = <<SystemMessage>> \o SummaryHistory(s)
  /\ reply' = <<>>
  /\ auto_continue_count' = 0
  /\ turn' = [turn EXCEPT !.sum = outcome, !.base = 1]
  /\ pc' = "chatReq"

\* the \c command without history.clear()
HistoryKept(h) == h

\* history.clear() of the \c command
HistoryCleared(h) == <<>>

\* read_line and the dispatch on the trimmed input, up to the first request
ReadInput(line) ==
  /\ UNCHANGED <<streamVars, heurVars>>
  /\ pc = "prompt"
  /\ decision' = NoDecision
  /\ LET input == Trim(line) IN
       IF input = <<>>
       THEN /\ lastInput' = "blank"
            /\ UNCHANGED <<pc, history, messages, reply, auto_continue_count,
                           last_reason, summary, sent, turn, streams, items, texts, open,
                           seen, deltas>>
       ELSE IF input = QuitCommand
       THEN /\ lastInput' = "quit"
            /\ pc' = "exit"
            /\ UNCHANGED <<history, messages, reply, auto_continue_count,
                           last_reason, summary, sent, turn, streams, items, texts, open,
                           seen, deltas>>
       ELSE IF input = ClearCommand
       THEN /\ lastInput' = "clear"
            /\ history' = HistoryCleared(history)
            /\ UNCHANGED <<pc, messages, reply, auto_continue_count,
                           last_reason, summary, sent, turn, streams, items, texts, open,
                           seen, deltas>>
       ELSE /\ streams + MaxStreamsPerTurn <= MaxStreams
            /\ lastInput' = "query"
            /\ LET h == Append(history, Msg("user", input))
                   ms == <<SystemMessage>> \o h
               IN /\ history' = h
                  /\ messages' = ms
                  /\ turn' = [sum |-> "none", orig |-> h, base |-> Len(h)]
                  /\ IF TotalTokens(ms) > ModelMaxInputTokens
                     THEN /\ pc' = "sumReq"
                          /\ summary' = <<>>
                          /\ UNCHANGED <<reply, auto_continue_count>>
                     ELSE /\ pc' = "chatReq"
                          /\ reply' = <<>>
                          /\ auto_continue_count' = 0
                          /\ UNCHANGED summary
            /\ UNCHANGED <<last_reason, sent, streams, items, texts, open, seen, deltas>>

\* the summary request: call_api_with_history_stream returns Ok or Err
SummaryRequest(ok) ==
  /\ UNCHANGED <<streamVars, heurVars>>
  /\ pc = "sumReq"
  /\ sent' = [kind |-> "summary", messages |-> SummaryRequestMessages(messages)]
  /\ streams' = streams + 1
  /\ items' = 0
  /\ IF ok
     THEN /\ pc' = "sumStream"
          /\ UNCHANGED <<history, messages, reply, auto_continue_count, turn>>
     ELSE ReplaceBySummary(summary, "reqErr")
  /\ open' = IF ok THEN Acquire(open) ELSE open
  /\ UNCHANGED <<last_reason, summary, decision, lastInput, texts, seen, deltas>>

\* the summary stream yields Ok((s, _))
SummaryItem(s) ==
  /\ UNCHANGED <<streamVars, heurVars>>
  /\ pc = "sumStream"
  /\ items < MaxItemsPerStream
  /\ s # <<>> => texts < MaxTextItems
  /\ items' = items + 1
  /\ texts' = IF s # <<>> THEN texts + 1 ELSE texts
  /\ summary' = PushStr(summary, s)
  /\ UNCHANGED <<pc, history, messages, reply, auto_continue_count, last_reason,
                 sent, turn, decision, lastInput, streams, open, seen, deltas>>

\* the summary stream ends, or yields Err and the loop breaks
SummaryEnd(err) ==
  /\ UNCHANGED <<streamVars, heurVars>>
  /\ pc = "sumStream"
  /\ ReplaceBySummary(summary, IF err THEN "streamErr" ELSE "ok")
  /\ open' = Release(open)
  /\ UNCHANGED <<last_reason, summary, sent, decision, lastInput, streams, items, texts,
                 seen, deltas>>

\* the turn is over: messages, reply and auto_continue_count go out of scope
TurnLocalsDropped ==
  /\ messages' = <<>>
  /\ reply' = <<>>
  /\ auto_continue_count' = 0

\* a chat request: call_api_with_history_stream returns Ok or Err; summary
\* went out of scope before it, and a failed request ends the turn
ChatRequest(ok) ==
  /\ UNCHANGED <<streamVars, heurVars>>
  /\ pc = "chatReq"
  /\ last_reason' = None
  /\ sent' = [kind |-> "chat", messages |-> messages]
  /\ streams' = streams + 1
  /\ items' = 0
  /\ decision' = NoDecision
  /\ pc' = IF ok THEN "chatStream" ELSE Broken
  /\ open' = IF ok THEN Acquire(open) ELSE open
  /\ seen' = <<>>
  /\ deltas' = 0
  /\ turn' = [turn EXCEPT !.orig = <<>>]
  /\ summary' = <<>>
  /\ IF ok THEN UNCHANGED <<messages, reply, auto_continue_count>>
     ELSE TurnLocalsDropped
  /\ UNCHANGED <<history, lastInput, texts>>

\* the chat stream yields Ok((s, reason))
ChatItem(s, reason) ==
  /\ UNCHANGED <<streamVars, heurVars>>
  /\ pc = "chatStream"
  /\ items < MaxItemsPerStream
  /\ s # <<>> => texts < MaxTextItems
  /\ items' = items + 1
  /\ texts' = IF s # <<>> THEN texts + 1 ELSE texts
  /\ reply' = PushStr(reply, s)
  /\ last_reason' = TrackReason(last_reason, reason)
  /\ seen' = Append(seen, reason)
  /\ deltas' = IF s # <<>> THEN deltas + 1 ELSE deltas
  /\ UNCHANGED <<pc, history, messages, auto_continue_count, summary, sent,
                 turn, decision, lastInput, streams, open>>

\* the chat stream ends, or yields Err and the loop breaks: the reply is
\* pushed as an assistant message and the continuation is decided; the
\* stream and last_reason go out of scope with the iteration
ChatEnd(err) ==
  /\ UNCHANGED <<streamVars, heurVars>>
  /\ pc = "chatStream"
  /\ LET h == Append(history, Msg("assistant", reply))
         cont == ShouldContinue(last_reason, reply) /\ MayContinue(auto_continue_count)
     IN /\ decision' = [made |-> TRUE, err |-> err, reason |-> last_reason,
                        reply |-> reply, count |-> auto_continue_count,
                        cont |-> cont, seen |-> seen, deltas |-> deltas,
                        before |-> Len(history)]
        /\ seen' = <<>>
        /\ deltas' = 0
        /\ IF cont
           THEN /\ auto_continue_count' = auto_continue_count + 1
                /\ history' = Append(h, Msg("user", ContinueText))
                /\ messages' = <<SystemMessage>> \o Append(h, Msg("user", ContinueText))
                /\ reply' = Cleared(reply)
                /\ pc' = "chatReq"
           ELSE /\ history' = h
                /\ pc' = "prompt"
                /\ TurnLocalsDropped
  /\ open' = Release(open)
  /\ last_reason' = None
  /\ items' = 0
  /\ UNCHANGED <<summary, sent, turn, lastInput, streams, texts>>

Next ==
  \/ \E line \in Inputs : ReadInput(line)
  \/ \E ok \in BOOLEAN : SummaryRequest(ok)
  \/ \E s \in Deltas : SummaryItem(s)
  \/ \E err \in BOOLEAN : SummaryEnd(err)
  \/ \E ok \in BOOLEAN : ChatRequest(ok)
  \/ \E s \in Deltas, reason \in Reasons : ChatItem(s, reason)
  \/ \E err \in BOOLEAN : ChatEnd(err)

(***************************************************************************)
(* api.rs: the stream adapter of call_api_with_history_stream.             *)
(*                                                                         *)
(* The response body is a sequence of wire units.  A unit is a byte (the   *)
(* line feed, the carriage return, the space, a letter, one byte of the    *)
(* UTF-8 encoding E5 A5 BD of U+597D) or a run of ASCII bytes that the     *)
(* model keeps together:                                                   *)
(*   data:       the five bytes of the marker before its space             *)
(*   [DONE]      the payload of the terminal line                          *)
(*   {c   c}     {"choices":[{   and   }]}                                 *)
(*   {}          a JSON object without "choices"                           *)
(*   dc: mc: fr: the keys of delta.content, message.content and            *)
(*               finish_reason, each followed by its value: null, or a     *)
(*               string between two quote units                            *)
(*   stop length the two finish reasons                                    *)
(* The transport cuts the body between any two units.                      *)
(***************************************************************************)
NL == "\n"
Quote == "\""

\* String::from_utf8_lossy: E5 A5 BD decodes to U+597D, a broken sequence to
\* U+FFFD, every other unit to itself
RECURSIVE Utf8Lossy(_)
Utf8Lossy(bs) ==
  IF bs = <<>> THEN <<>>
  ELSE IF bs[1] = "E5"
       THEN IF Len(bs) >= 2 /\ bs[2] = "A5"
            THEN IF Len(bs) >= 3 /\ bs[3] = "BD"
                 THEN <<"U+597D">> \o Utf8Lossy(SubSeq(bs, 4, Len(bs)))
                 ELSE <<"U+FFFD">> \o Utf8Lossy(SubSeq(bs, 3, Len(bs)))
            ELSE <<"U+FFFD">> \o Utf8Lossy(Tail(bs))
       ELSE IF bs[1] \in {"A5", "BD"}
            THEN <<"U+FFFD">> \o Utf8Lossy(Tail(bs))
            ELSE <<bs[1]>> \o Utf8Lossy(Tail(bs))

RECURSIVE TrimChars(_)
\* str::trim on a sequence of characters
TrimChars(cs) ==
  IF cs # <<>> /\ IsWhitespace(cs[1]) THEN TrimChars(Tail(cs))
  ELSE IF cs # <<>> /\ IsWhitespace(cs[Len(cs)])
       THEN TrimChars(SubSeq(cs, 1, Len(cs) - 1))
       ELSE cs

\* the marker "data: "
DataPrefix == <<"data:", " ">>

\* str::strip_prefix("data: ")
HasDataPrefix(cs) == Len(cs) >= 2 /\ SubSeq(cs, 1, 2) = DataPrefix
StripDataPrefix(cs) == SubSeq(cs, 3, Len(cs))

\* the position of the first quote unit of cs at or after i, 0 when none
RECURSIVE QuoteFrom(_, _)
QuoteFrom(cs, i) ==
  IF i > Len(cs) THEN 0
  ELSE IF cs[i] = Quote THEN i
  ELSE QuoteFrom(cs, i + 1)

NoChoice == [ok |-> FALSE, dc |-> None, mc |-> None, fr |-> None]

\* the fields of choices[0], read up to the closing c}: a key is followed by
\* null or by a quoted string; a later occurrence of a key replaces an
\* earlier one; anything else is a syntax error
RECURSIVE ParseFields(_, _)
ParseFields(cs, acc) ==
  IF cs = <<>> THEN NoChoice
  ELSE IF cs[1] = "c}" THEN (IF Len(cs) = 1 THEN acc ELSE NoChoice)
  ELSE IF cs[1] \notin {"dc:", "mc:", "fr:"} \/ Len(cs) < 2 THEN NoChoice
  ELSE LET key == CASE cs[1] = "dc:" -> "dc" [] cs[1] = "mc:" -> "mc" [] OTHER -> "fr" IN
       IF cs[2] = "null"
       THEN ParseFields(SubSeq(cs, 3, Len(cs)), [acc EXCEPT ![key] = None])
       ELSE IF cs[2] = Quote
       THEN LET j == QuoteFrom(cs, 3) IN
            IF j = 0 THEN NoChoice
            ELSE ParseFields(SubSeq(cs, j + 1, Len(cs)),
                             [acc EXCEPT ![key] = Some(Lit(SubSeq(cs, 3, j - 1)))])
       ELSE NoChoice

\* serde_json::from_str and json.get("choices").get(0): ok when the payload
\* is valid JSON holding choices[0]; dc, mc and fr are the values of
\* delta.content, message.content and finish_reason when they are strings
ParseChoice(data) ==
  IF data # <<>> /\ data[1] = "{c"
  THEN ParseFields(Tail(data), [ok |-> TRUE, dc |-> None, mc |-> None, fr |-> None])
  ELSE NoChoice

\* the items of the stream
OkItem(text, reason) == [ok |-> TRUE, text |-> text, reason |-> reason]
ErrItem == [ok |-> FALSE, text |-> <<>>, reason |-> None]
\* a terminal event that carries "stop"
TerminalItemStop == OkItem(<<>>, Some(StopReason))

\* the event of a [DONE] line: Ok((String::new(), Some("length")))
TerminalItem == OkItem(<<>>, Some(LengthReason))

NoEvent == [kind |-> "skip", item |-> ErrItem]

\* LineEvent preferring message.content to delta.content
LineEventMessageFirst(line) ==
  LET line_str == TrimChars(Utf8Lossy(line)) IN
    IF line_str = <<>> THEN NoEvent
    ELSE IF ~HasDataPrefix(line_str) THEN NoEvent
    ELSE LET data == StripDataPrefix(line_str) IN
      IF data = <<"[DONE]">> THEN [kind |-> "done", item |-> TerminalItem]
      ELSE LET c == ParseChoice(data) IN
        IF ~c.ok THEN NoEvent
        ELSE IF c.mc.some THEN [kind |-> "event", item |-> OkItem(c.mc.v, c.fr)]
        ELSE IF c.dc.some THEN [kind |-> "event", item |-> OkItem(c.dc.v, c.fr)]
        ELSE IF c.fr.some THEN [kind |-> "event", item |-> OkItem(<<>>, c.fr)]
        ELSE NoEvent

\* what one line, isolated from the buffer with its line feed, yields
LineEvent(line) ==
  LET line_str == TrimChars(Utf8Lossy(line)) IN
    IF line_str = <<>> THEN NoEvent
    ELSE IF ~HasDataPrefix(line_str) THEN NoEvent
    ELSE LET data == StripDataPrefix(line_str) IN
      IF data = <<"[DONE]">> THEN [kind |-> "done", item |-> TerminalItem]
      ELSE LET c == ParseChoice(data) IN
        IF ~c.ok THEN NoEvent
        ELSE IF c.dc.some THEN [kind |-> "event", item |-> OkItem(c.dc.v, c.fr)]
        ELSE IF c.mc.some THEN [kind |-> "event", item |-> OkItem(c.mc.v, c.fr)]
        ELSE IF c.fr.some THEN [kind |-> "event", item |-> OkItem(<<>>, c.fr)]
        ELSE NoEvent

\* buffer.iter().position(|&b| b == b'\n'), counted from 1; 0 when none
RECURSIVE NewlinePos(_, _)
NewlinePos(buf, i) ==
  IF i > Len(buf) THEN 0
  ELSE IF buf[i] = NL THEN i
  ELSE NewlinePos(buf, i + 1)

\* the line scan loop: lines are drained from the front of the buffer until
\* one yields an item (the closure returns it) or no line feed is left
RECURSIVE Scan(_)
Scan(buf) ==
  LET pos == NewlinePos(buf, 1) IN
    IF pos = 0
    THEN [kind |-> "more", item |-> ErrItem, buffer |-> buf, finished |-> FALSE]
    ELSE LET e == LineEvent(SubSeq(buf, 1, pos))
             rest == SubSeq(buf, pos + 1, Len(buf))
         IN IF e.kind = "skip" THEN Scan(rest)
            ELSE [kind |-> "item", item |-> e.item, buffer |-> rest,
                  finished |-> (e.kind = "done")]

\* the lines a response body is made of
BlankLine == <<NL>>
CommentLine == <<":", NL>>
DoneLine == <<"data:", " ", "[DONE]", "\r", NL>>
DeltaLine == <<"data:", " ", "{c", "dc:", Quote, "E5", "A5", "BD", Quote, "c}", NL>>
DeltaStopLine ==
  <<"data:", " ", "{c", "dc:", Quote, "a", Quote, "fr:", Quote, "stop", Quote, "c}", NL>>
MalformedLine == <<"data:", " ", "{c", "dc:", Quote, "a", NL>>
EmptyChoiceLine == <<"data:", " ", "{c", "dc:", "null", "fr:", "null", "c}", NL>>

LineCatalogue ==
  {BlankLine, CommentLine, DoneLine, DeltaLine, DeltaStopLine, MalformedLine,
   EmptyChoiceLine}

\* the value of a field of choices[0] in a response line: the key is absent,
\* its value is null, or its value is a string
Absent == [k |-> "absent", s |-> <<>>]
Null == [k |-> "null", s |-> <<>>]
Str(cs) == [k |-> "str", s |-> cs]

\* the wire units of a field: nothing, key null, or key "string"
FieldUnits(key, v) ==
  IF v.k = "absent" THEN <<>>
  ELSE IF v.k = "null" THEN <<key, "null">>
  ELSE <<key, Quote>> \o v.s \o <<Quote>>

\* a data line whose JSON holds choices[0] with the given delta.content,
\* message.content and finish_reason; finish_reason is written first or last
ChoiceLine(dc, mc, fr, frFirst) ==
  <<"data:", " ", "{c">>
    \o (IF frFirst THEN FieldUnits("fr:", fr) ELSE <<>>)
    \o FieldUnits("dc:", dc)
    \o FieldUnits("mc:", mc)
    \o (IF frFirst THEN <<>> ELSE FieldUnits("fr:", fr))
    \o <<"c}", NL>>

DeltaContents == {Absent, Null, Str(<<>>), Str(<<"h", "i">>)}
MessageContents == {Absent, Null, Str(<<>>), Str(<<"m">>)}
FinishReasons == {Absent, Null, Str(<<"stop">>), Str(<<"length">>)}

ChoiceLines ==
  {ChoiceLine(dc, mc, fr, o) :
     dc \in DeltaContents, mc \in MessageContents, fr \in FinishReasons,
     o \in BOOLEAN}

\* the response bodies: up to MaxLines lines of the catalogue, or one data
\* line with a choice
Bodies ==
  UNION {[1..n -> LineCatalogue] : n \in 0..MaxLines}
    \cup {<<l>> : l \in ChoiceLines}

RECURSIVE Flatten(_)
Flatten(ls) == IF ls = <<>> THEN <<>> ELSE ls[1] \o Flatten(Tail(ls))

\* ls without its i-th line
WithoutLine(ls, i) == SubSeq(ls, 1, i - 1) \o SubSeq(ls, i + 1, Len(ls))

\* the statuses a response carries: success, and a refusal
HttpStatuses == {200, 401}

\* StatusCode::is_success
IsSuccess(st) == st \in 200..299

\* the body of a refusal: a JSON object with the error, no line feed after it
ErrorBody == <<"{}">>

StreamInit ==
  /\ status \in HttpStatuses
  /\ body \in (IF IsSuccess(status) THEN Bodies ELSE {<<ErrorBody>>})
  /\ wire = Flatten(body)
  /\ buffer = <<>>
  /\ finished = FALSE
  /\ apc = "idle"
  /\ out = <<>>
  /\ run = 1
  /\ firstOut = <<>>
  /\ dropped = FALSE

\* the consumer polls the stream: the closure returns None when finished is
\* set, and awaits the next chunk of the transport otherwise
Poll ==
  /\ UNCHANGED <<mainVars, heurVars>>
  /\ apc = "idle"
  /\ apc' = IF finished THEN "closed" ELSE "await"
  /\ UNCHANGED <<body, wire, buffer, finished, out, run, firstOut, dropped, status>>

\* the transport delivers the next k units as a chunk: the chunk is appended
\* to the buffer and the lines are scanned.  An item ends the poll; without
\* one the closure awaits the next chunk.
RecvChunk(k) ==
  /\ UNCHANGED <<mainVars, heurVars>>
  /\ apc = "await"
  /\ k \in 1..Len(wire)
  /\ run = 1 => k = 1
  /\ wire' = SubSeq(wire, k + 1, Len(wire))
  /\ LET r == Scan(buffer \o SubSeq(wire, 1, k)) IN
       /\ buffer' = r.buffer
       /\ IF r.kind = "item"
          THEN /\ out' = Append(out, r.item)
               /\ finished' = r.finished
               /\ apc' = "idle"
          ELSE UNCHANGED <<out, finished, apc>>
  /\ UNCHANGED <<body, run, firstOut, dropped, status>>

\* the transport has no more bytes: the closure returns None
RecvEnd ==
  /\ UNCHANGED <<mainVars, heurVars>>
  /\ apc = "await"
  /\ wire = <<>>
  /\ apc' = "closed"
  /\ UNCHANGED <<body, wire, buffer, finished, out, run, firstOut, dropped, status>>

\* RecvErr leaving finished unset
RecvErrKeepsOpen ==
  /\ UNCHANGED <<mainVars, heurVars>>
  /\ apc = "await"
  /\ run = 2
  /\ out' = Append(out, ErrItem)
  /\ finished' = FALSE
  /\ apc' = "idle"
  /\ UNCHANGED <<body, wire, buffer, run, firstOut, dropped, status>>

\* the transport yields a read error: the closure returns it and sets finished
RecvErr ==
  /\ UNCHANGED <<mainVars, heurVars>>
  /\ apc = "await"
  /\ run = 2
  /\ out' = Append(out, ErrItem)
  /\ finished' = TRUE
  /\ apc' = "idle"
  /\ UNCHANGED <<body, wire, buffer, run, firstOut, dropped, status>>

\* the lines of ls that yield no event
NoEventLines(ls) == {i \in 1..Len(ls) : LineEvent(ls[i]).kind = "skip"}

\* the reference run is over: a second request reads the same body, or the
\* body without one of its no-event lines, from a transport that cuts it
\* anywhere
SecondRun(drop) ==
  /\ UNCHANGED <<mainVars, heurVars>>
  /\ run = 1
  /\ apc = "closed"
  /\ run' = 2
  /\ firstOut' = out
  /\ drop \in {0} \cup NoEventLines(body)
  /\ body' = IF drop = 0 THEN body ELSE WithoutLine(body, drop)
  /\ dropped' = (drop # 0)
  /\ wire' = Flatten(body')
  /\ buffer' = <<>>
  /\ finished' = FALSE
  /\ apc' = "idle"
  /\ out' = <<>>
  /\ UNCHANGED status

StreamNext ==
  \/ Poll
  \/ \E k \in 1..Len(wire) : RecvChunk(k)
  \/ RecvEnd
  \/ RecvErr
  \/ \E drop \in 0..Len(body) : SecondRun(drop)

(***************************************************************************)
(* The truncation heuristic on its own: a reply is received item by item,  *)
(* as the chat stream loop of main receives it, and should_continue is     *)
(* evaluated on it.                                                        *)
(***************************************************************************)
\* the text deltas: the connectors and sentence marks the heuristic looks
\* for, their ASCII look-alikes, filler, white space, and two long blocks of
\* 99 bytes each (99 ASCII letters; 33 ideographs)
HeurDeltas ==
  {Lit(<<"U+FF08">>), Lit(<<"(">>), Lit(<<"U+3001">>), Lit(<<"U+FF0C">>),
   Lit(<<"U+FF1A">>), Lit(<<"-">>), Lit(<<"*">>), Lit(<<"U+3002">>),
   Lit(<<"U+FF01">>), Lit(<<"U+FF1F">>), Lit(<<"a">>), Lit(<<" ">>),
   <<CharRun("a", 99)>>, <<CharRun("U+597D", 33)>>}

HeurInit ==
  /\ hpc = "build"
  /\ hreply = <<>>
  /\ hlast = None
  /\ hn = 0
  /\ hresult = FALSE

\* Ok((s, reason)): reply.push_str(&s); last_reason kept unless reason is Some
HeurItem(s, reason) ==
  /\ UNCHANGED <<mainVars, streamVars>>
  /\ hpc = "build"
  /\ hn < MaxPushes
  /\ hn' = hn + 1
  /\ hreply' = PushStr(hreply, s)
  /\ hlast' = TrackReason(hlast, reason)
  /\ UNCHANGED <<hpc, hresult>>

\* the stream ends: should_continue is computed
HeurDecide ==
  /\ UNCHANGED <<mainVars, streamVars>>
  /\ hpc = "build"
  /\ hpc' = "done"
  /\ hresult' = ShouldContinue(hlast, hreply)
  /\ UNCHANGED <<hreply, hlast, hn>>

HeurNext ==
  \/ \E s \in HeurDeltas, reason \in Reasons : HeurItem(s, reason)
  \/ HeurDecide

(***************************************************************************)
(* Specifications                                                          *)
(***************************************************************************)
StreamOff ==
  /\ body = <<>>
  /\ wire = <<>>
  /\ buffer = <<>>
  /\ finished = FALSE
  /\ apc = "off"
  /\ out = <<>>
  /\ run = 0
  /\ firstOut = <<>>
  /\ dropped = FALSE
  /\ status = 0

HeurOff ==
  /\ hpc = "off"
  /\ hreply = <<>>
  /\ hlast = None
  /\ hn = 0
  /\ hresult = FALSE

Init == MainInit /\ StreamOff /\ HeurOff

Spec == Init /\ [][Next]_vars

\* an awaited request is answered, with Ok or Err, or an open stream ends
Completion ==
  \/ \E ok \in BOOLEAN : SummaryRequest(ok)
  \/ \E err \in BOOLEAN : SummaryEnd(err)
  \/ \E ok \in BOOLEAN : ChatRequest(ok)
  \/ \E err \in BOOLEAN : ChatEnd(err)

\* the steps of the chat loop, with one item less per stream and one text
\* delta less per session than Next allows
LiveScope == items' < MaxItemsPerStream /\ texts' < MaxTextItems

LiveNext ==
  \/ \E line \in Inputs : ReadInput(line) /\ LiveScope
  \/ \E ok \in BOOLEAN : SummaryRequest(ok) /\ LiveScope
  \/ \E s \in Deltas : SummaryItem(s) /\ LiveScope
  \/ \E err \in BOOLEAN : SummaryEnd(err) /\ LiveScope
  \/ \E ok \in BOOLEAN : ChatRequest(ok) /\ LiveScope
  \/ \E s \in Deltas, reason \in Reasons : ChatItem(s, reason) /\ LiveScope
  \/ \E err \in BOOLEAN : ChatEnd(err) /\ LiveScope

\* the chat loop when every await of a request or of a stream item completes:
\* a request is answered, with Ok or Err, and an open stream ends
LiveSpec ==
  /\ Init
  /\ [][LiveNext]_vars
  /\ WF_vars(Completion)

MainOff ==
  /\ pc = "off"
  /\ history = <<>>
  /\ messages = <<>>
  /\ reply = <<>>
  /\ auto_continue_count = 0
  /\ last_reason = None
  /\ summary = <<>>
  /\ sent = NoRequest
  /\ turn = NoTurn
  /\ decision = NoDecision
  /\ lastInput = "none"
  /\ streams = 0
  /\ items = 0
  /\ texts = 0
  /\ open = 0
  /\ seen = <<>>
  /\ deltas = 0

StreamSpecInit == MainOff /\ HeurOff /\ StreamInit

StreamSpec == StreamSpecInit /\ [][StreamNext]_vars

HeurSpecInit == MainOff /\ StreamOff /\ HeurInit

HeurSpec == HeurSpecInit /\ [][HeurNext]_vars

(***************************************************************************)
(* Claims about the chat loop (Spec)                                       *)
(***************************************************************************)

\* C4: within one user turn auto_continue_count never exceeds
\* MAX_AUTO_CONTINUE = 5, and a decision taken after the 5th continuation
\* never continues, whatever the finish reason or the heuristic says.
C4_ContinuationCapped ==
  /\ auto_continue_count <= 5
  /\ (decision.made /\ decision.count >= 5) => (~decision.cont /\ pc = "prompt")

\* C4 witness: after the 5th continuation a stream ended signalling
\* truncation, and the turn ended.
C4_Witness ==
  /\ decision.made
  /\ decision.count = 5
  /\ decision.reason = Some(LengthReason)
  /\ pc = "prompt"

\* C5 (as claimed): when the summary request failed, the history holds the
\* original unsummarized messages when the main chat request is built.
C5_HistoryKeptOnSummaryFailure ==
  (pc = "chatReq" /\ auto_continue_count = 0 /\ turn.sum = "reqErr")
    => history = turn.orig

\* C6 (as claimed): a chat stream that ended by an error item is never
\* followed by an automatic continuation.
C6_NoContinuationAfterStreamError ==
  (decision.made /\ decision.err) => (~decision.cont /\ pc = "prompt")

\* C7: when a finish_reason was captured, the controller continues exactly
\* when the last captured reason is "length" and the counter is under the
\* cap; the trailing-punctuation heuristic plays no part.
C7_ReasonDecides ==
  (decision.made /\ decision.reason.some)
    => /\ decision.cont <=> (decision.reason.v = LengthReason /\ decision.count < 5)
       /\ decision.cont <=> (pc = "chatReq")

\* C7 witness: the reason "stop" was captured, the reply ends in a full-width
\* comma (the heuristic would say truncated), and the turn ended.
C7_Witness ==
  /\ decision.made
  /\ decision.reason = Some(StopReason)
  /\ decision.count < 5
  /\ EndsWith(decision.reply, Lit(<<"U+FF0C">>))
  /\ ~decision.cont
  /\ pc = "prompt"

\* the state right after a summarization step: the first chat request of
\* the turn is about to be issued
AfterSummarization ==
  pc = "chatReq" /\ auto_continue_count = 0 /\ turn.sum # "none"

\* C9: immediately after a summarization step the history is exactly one
\* user message whose content is the summary marker followed by the
\* collected summary text.
C9_HistoryIsTheSummary ==
  AfterSummarization
    => /\ Len(history) = 1
       /\ history[1].role = "user"
       /\ history[1].content = PushStr(SummaryMarker, summary)

\* C9 witness: a summary stream delivered text and ended, and the history
\* held two messages or more before the step.
C9_Witness ==
  /\ AfterSummarization
  /\ turn.sum = "ok"
  /\ summary # <<>>
  /\ Len(turn.orig) >= 2

(***************************************************************************)
(* Claims about the truncation heuristic (HeurSpec)                        *)
(***************************************************************************)
EndsInAny(t, pats) == \E p \in pats : EndsWith(t, p)

SentenceMarks == {Lit(<<"U+3002">>), Lit(<<"U+FF01">>), Lit(<<"U+FF1F">>)}

\* C8 (as claimed): with no finish_reason, a reply whose trimmed text ends in
\* "(" (ASCII), U+3001, U+FF0C, U+FF1A, "-" or "**" is treated as truncated,
\* and one of fewer than 100 characters ending in U+3002, U+FF01 or U+FF1F
\* is not.
C8_HeuristicAsClaimed ==
  (hpc = "done" /\ ~hlast.some)
    => /\ EndsInAny(Trim(hreply),
                    {Lit(<<"(">>), Lit(<<"U+3001">>), Lit(<<"U+FF0C">>),
                     Lit(<<"U+FF1A">>), Lit(<<"-">>), Lit(<<"*", "*">>)})
            => hresult
       /\ (CharsCount(Trim(hreply)) < 100 /\ EndsInAny(Trim(hreply), SentenceMarks))
            => ~hresult

\* C8 (amended): the same with the full-width left parenthesis U+FF08 in the
\* place of the ASCII "(".
C8_Heuristic ==
  (hpc = "done" /\ ~hlast.some)
    => /\ EndsInAny(Trim(hreply),
                    {Lit(<<"U+FF08">>), Lit(<<"U+3001">>), Lit(<<"U+FF0C">>),
                     Lit(<<"U+FF1A">>), Lit(<<"-">>), Lit(<<"*", "*">>)})
            => hresult
       /\ (CharsCount(Trim(hreply)) < 100 /\ EndsInAny(Trim(hreply), SentenceMarks))
            => ~hresult

\* C8 witness: no reason was captured, the reply ends in the full-width left
\* parenthesis followed by white space, and it is treated as truncated.
C8_Witness ==
  /\ hpc = "done"
  /\ ~hlast.some
  /\ hreply # Trim(hreply)
  /\ EndsWith(Trim(hreply), Lit(<<"U+FF08">>))
  /\ hresult

(***************************************************************************)
(* Claims about the stream adapter (StreamSpec)                            *)
(***************************************************************************)
NoError(items_) == \A i \in 1..Len(items_) : items_[i].ok

\* a run that ended without a transport error
ClosedCleanly == apc = "closed" /\ NoError(out)

\* C1 (as claimed): whatever the chunks the transport cuts a body into, the
\* stream yields the sequence of events it yields when every unit is a chunk
\* of its own.
C1_ChunkingInvariant ==
  (run = 2 /\ ~dropped /\ ClosedCleanly) => out = firstOut

\* C2 (as claimed): the adapter never awaits another chunk while a complete
\* event-bearing line is held in the decode buffer.
C2_DrainedBeforeAwait ==
  (apc = "await" /\ ~finished) => Scan(buffer).kind # "item"

\* the units the transport has delivered in this run
Delivered == Len(Flatten(body)) - Len(wire)

\* the number of units up to the end of the first [DONE] line of ls, counted
\* from n; 0 when ls holds no [DONE] line
RECURSIVE FirstDoneEnd(_, _)
FirstDoneEnd(ls, n) ==
  IF ls = <<>> THEN 0
  ELSE IF LineEvent(ls[1]).kind = "done" THEN n + Len(ls[1])
  ELSE FirstDoneEnd(Tail(ls), n + Len(ls[1]))

DoneReceived == FirstDoneEnd(body, 0) > 0 /\ Delivered >= FirstDoneEnd(body, 0)

\* C3 (as claimed): once a [DONE] line was received in full, a stream that
\* ends without a transport error has yielded the terminal event as its last
\* item.
C3_DoneYieldsTerminalEvent ==
  (ClosedCleanly /\ DoneReceived)
    => /\ out # <<>>
       /\ out[Len(out)] = TerminalItem
       /\ finished

\* C10 (as claimed): a body read without one of its no-event lines yields the
\* events the whole body yields.
C10_NoEventLineIsTransparent ==
  (run = 2 /\ dropped /\ ClosedCleanly) => out = firstOut

\* C11: a transport read error is the last item of the stream and there is
\* one at most; once it was emitted the stream is finished, so neither the
\* lines held in the decode buffer nor later chunks yield an item.
C11_ErrorEndsStream ==
  /\ \A i \in 1..Len(out) : ~out[i].ok => i = Len(out)
  /\ (out # <<>> /\ ~out[Len(out)].ok) => (finished /\ apc \in {"idle", "closed"})

\* C11 witness: the stream ended after an event and an error item while a
\* complete event-bearing line was still held in the decode buffer.
C11_Witness ==
  /\ apc = "closed"
  /\ Len(out) >= 2
  /\ ~out[Len(out)].ok
  /\ Scan(buffer).kind = "item"

\* finish_reason as the event carries it
ReasonOf(fr) == IF fr.k = "str" THEN Some(Lit(fr.s)) ELSE None

\* the events C12 states for a choice
ChoiceEvents(dc, mc, fr) ==
  IF dc.k = "str" THEN <<OkItem(Lit(dc.s), ReasonOf(fr))>>
  ELSE IF mc.k = "str" THEN <<OkItem(Lit(mc.s), ReasonOf(fr))>>
  ELSE IF fr.k = "str" THEN <<OkItem(<<>>, ReasonOf(fr))>>
  ELSE <<>>

\* C12: a data line whose JSON has choices[0] yields (delta.content,
\* finish_reason) when delta.content is a string, else (message.content,
\* finish_reason) when message.content is a string, else ("", finish_reason)
\* when finish_reason is a string, else no event.
C12_ExtractionPriority ==
  \A dc \in DeltaContents, mc \in MessageContents, fr \in FinishReasons,
     o \in BOOLEAN :
    (apc = "closed" /\ NoError(out) /\ body = <<ChoiceLine(dc, mc, fr, o)>>)
      => out = ChoiceEvents(dc, mc, fr)

\* C12 witness: delta.content is null, message.content is "m" and
\* finish_reason is "stop"; the stream yielded ("m", Some("stop")).
C12_Witness ==
  /\ apc = "closed"
  /\ run = 2
  /\ body = <<ChoiceLine(Null, Str(<<"m">>), Str(<<"stop">>), FALSE)>>
  /\ out = <<OkItem(Lit(<<"m">>), Some(StopReason))>>

(***************************************************************************)
(* Further claims about the chat loop (Spec)                               *)
(***************************************************************************)

\* C13: the history never holds a system message, and the message list of
\* every chat request is the system message followed by the history as it
\* stands when the request is issued.
C13_SystemMessagePrepended ==
  /\ \A i \in 1..Len(history) : history[i].role # "system"
  /\ pc = "chatReq" => messages = <<SystemMessage>> \o history
  /\ pc = "chatStream"
       => sent = [kind |-> "chat", messages |-> <<SystemMessage>> \o history]

\* C13 witness: a continuation request of a turn that summarized is open.
C13_Witness ==
  /\ pc = "chatStream"
  /\ auto_continue_count >= 1
  /\ turn.sum = "ok"
  /\ Len(history) >= 3
  /\ sent.kind = "chat"

\* C14: at most one response stream is open at any time, and none is open
\* when a request is issued: the summary stream is dropped before the chat
\* request, and each chat stream before the next continuation request.
C14_OneStreamAtATime ==
  /\ open <= 1
  /\ pc \in {"sumReq", "chatReq", "prompt", "exit"} => open = 0
  /\ pc \in {"sumStream", "chatStream"} => open = 1

\* C14 witness: a continuation request is about to be issued in a turn whose
\* summary stream and first chat stream were both opened and consumed.
C14_Witness ==
  /\ pc = "chatReq"
  /\ auto_continue_count >= 1
  /\ turn.sum = "ok"
  /\ open = 0

(***************************************************************************)
(* Further claims about the stream adapter (StreamSpec)                    *)
(***************************************************************************)

\* C15 (as claimed): the body of a response whose status is not a success is
\* never handed to the decoder as an event stream: the request ends in an
\* error, so no byte of that body is decoded and no stream of it ends.
C15_NonSuccessIsAnError ==
  ~IsSuccess(status) => (Delivered = 0 /\ apc # "closed")

\* the reason carried by the last item of rs that carried one
RECURSIVE LastReasonOf(_)
LastReasonOf(rs) ==
  IF rs = <<>> THEN None
  ELSE IF rs[Len(rs)].some THEN rs[Len(rs)]
  ELSE LastReasonOf(SubSeq(rs, 1, Len(rs) - 1))

\* C16: while a chat stream is consumed the tracked reason is the one of the
\* last item of this stream that carried a finish_reason (None when no item
\* of this stream carried one, whatever earlier streams carried), and the
\* continuation decision uses that reason.
C16_LastReasonTracked ==
  /\ pc = "chatStream" => last_reason = LastReasonOf(seen)
  /\ decision.made => decision.reason = LastReasonOf(decision.seen)

\* C16 witness: in a continuation stream "length" arrived first and "stop"
\* after it; the stream was consumed to its end and the decision used "stop".
C16_Witness ==
  /\ decision.made
  /\ decision.count >= 1
  /\ decision.seen = <<Some(LengthReason), Some(StopReason)>>
  /\ decision.reason = Some(StopReason)
  /\ ~decision.cont

\* the estimate as the budget rule states it: for every message, the number
\* of characters of its text divided by four, rounded down, plus one
RECURSIVE StatedEstimate(_)
StatedEstimate(ms) ==
  IF ms = <<>> THEN 0
  ELSE (CharsCount(Head(ms).content) \div 4) + 1 + StatedEstimate(Tail(ms))

\* the turn has gone through the summarization step
Summarizing == pc \in {"sumReq", "sumStream"} \/ turn.sum # "none"

\* the non-empty text delta of the chat streams
TextDelta == CHOOSE d \in Deltas : d # <<>>

\* k text deltas, concatenated
RECURSIVE Concatenated(_)
Concatenated(k) == IF k = 0 THEN <<>> ELSE PushStr(Concatenated(k - 1), TextDelta)

\* C17: when a chat stream ends, by completion or by an error item, exactly
\* one assistant message is appended to the history (followed by the
\* continuation message when the turn continues), and its content is the
\* concatenation of the text deltas received from that stream alone.
C17_OneAssistantPerStream ==
  decision.made
    => /\ Len(history) = decision.before + (IF decision.cont THEN 2 ELSE 1)
       /\ history[decision.before + 1]
            = Msg("assistant", Concatenated(decision.deltas))

\* C17 witness: a continuation stream delivered one text delta and then an
\* error item; the iteration before it had delivered text too.
C17_Witness ==
  /\ decision.made
  /\ decision.err
  /\ decision.count >= 1
  /\ decision.deltas = 1
  /\ history[decision.before - 1].role = "assistant"
  /\ history[decision.before - 1].content # <<>>

\* the messages the current turn has appended to the history: from the user
\* input, or from the summary message that replaced it, to the end
TurnMessages == SubSeq(history, turn.base, Len(history))

\* C18: every continuation step appends one continue message after the
\* assistant message, so the messages a turn has appended when it ends are the
\* user input, an assistant message, and then at most MAX_AUTO_CONTINUE pairs
\* of a continue message and an assistant message.
C18_TurnShape ==
  (pc = "prompt" /\ lastInput = "query")
    => LET t == TurnMessages
       IN /\ Len(t) >= 2
          /\ Len(t) % 2 = 0
          /\ Len(t) <= 2 * (MAX_AUTO_CONTINUE + 1)
          /\ \A i \in 1..Len(t) :
                IF i % 2 = 0 THEN t[i].role = "assistant"
                ELSE /\ t[i].role = "user"
                     /\ i > 1 => t[i] = Msg("user", ContinueText)

\* the endings that make a reply count as truncated whatever its length: the
\* six of the heuristic and the ASCII left parenthesis
OpenEndings ==
  {Lit(<<"U+FF08">>), Lit(<<"(">>), Lit(<<"U+3001">>), Lit(<<"U+FF0C">>),
   Lit(<<"U+FF1A">>), Lit(<<"-">>), Lit(<<"*", "*">>)}

\* C19: with no finish_reason captured, a reply whose trimmed text does not
\* end in an open-ended connector is treated as truncated exactly when it is
\* longer than 100 characters and does not end in U+3002, U+FF01 or U+FF1F;
\* the length is counted in characters, so a reply of at most 100 ideographs
\* is never treated as truncated for its length.
C19_LengthInCharacters ==
  (hpc = "done" /\ ~hlast.some /\ ~EndsInAny(Trim(hreply), OpenEndings))
    => (hresult <=> /\ CharsCount(Trim(hreply)) > 100
                    /\ ~EndsInAny(Trim(hreply), SentenceMarks))

\* C20: a turn issues a summary request exactly when the estimate of the
\* system message and the history, the new user input included, is strictly
\* greater than ModelMaxInputTokens; at the budget or below it no summary
\* request is issued and the history goes to the chat request unchanged.
C20_SummarizeIffOverBudget ==
  (/\ lastInput = "query"
   /\ \/ pc \in {"sumReq", "sumStream"}
      \/ pc = "chatReq" /\ auto_continue_count = 0)
    => LET over == StatedEstimate(<<SystemMessage>> \o turn.orig)
                     > ModelMaxInputTokens
       IN /\ over <=> Summarizing
          /\ ~over => /\ history = turn.orig
                      /\ messages = <<SystemMessage>> \o turn.orig
                      /\ sent.kind # "summary"

\* C20 witness: a first query estimated at the budget exactly went to its chat
\* request unsummarized, and the next query, with that one in the history, is
\* over the budget and has its summary request issued.
C20_Witness ==
  /\ pc = "sumStream"
  /\ lastInput = "query"
  /\ sent.kind = "summary"
  /\ Len(turn.orig) >= 2
  /\ StatedEstimate(<<SystemMessage, turn.orig[1]>>) = ModelMaxInputTokens

\* C21: a line that is not a query issues no request and appends no message:
\* \c leaves the history empty and returns to the prompt, a line of white
\* space leaves the history as it is and returns to the prompt, and \q ends
\* the session loop.
C21_CommandsIssueNoRequest ==
  [][(pc = "prompt" /\ lastInput' # "query")
       => /\ streams' = streams
          /\ sent' = sent
          /\ open' = open
          /\ lastInput' = "clear" => (history' = <<>> /\ pc' = "prompt")
          /\ lastInput' = "blank" => (history' = history /\ pc' = "prompt")
          /\ lastInput' = "quit" => (history' = history /\ pc' = "exit")]_vars

\* C21 witness: \c was read after a turn that had left messages in the
\* history (a request was issued earlier), and the prompt is back with the
\* history empty.
C21_Witness ==
  /\ lastInput = "clear"
  /\ pc = "prompt"
  /\ streams >= 1
  /\ history = <<>>

\* a turn is in progress: a request or a stream is awaited
InTurn == pc \in {"sumReq", "sumStream", "chatReq", "chatStream"}

\* C22: when every opened stream ends, every turn comes back to the prompt,
\* whatever the outcomes of its requests and streams, and the session loop
\* is left by the \q command only.
C22_TurnReturnsToPrompt ==
  /\ InTurn ~> (pc = "prompt")
  /\ [](pc = "exit" => lastInput = "quit")

\* C22 witness: the prompt is back after a turn whose summary request
\* failed, which continued MAX_AUTO_CONTINUE times and whose last stream
\* ended with an error.
C22_Witness ==
  /\ pc = "prompt"
  /\ lastInput = "query"
  /\ turn.sum = "reqErr"
  /\ decision.made
  /\ decision.err
  /\ decision.count = MAX_AUTO_CONTINUE

\* C23: when the last item a chat stream delivered is the terminal event of a
\* [DONE] line and the stream then ended, the reason used for the decision
\* is "length", whatever the earlier events of the stream carried, and the
\* turn continues exactly when the counter is under MAX_AUTO_CONTINUE.
C23_DoneMeansLength ==
  (/\ decision.made
   /\ ~decision.err
   /\ decision.seen # <<>>
   /\ decision.seen[Len(decision.seen)] = TerminalItem.reason)
    => /\ decision.reason = Some(LengthReason)
       /\ decision.cont <=> decision.count < MAX_AUTO_CONTINUE
       /\ decision.cont <=> (pc = "chatReq")

\* C23 witness: an event carried "stop", the terminal event followed it (no
\* item of the stream had text, so the last one is the terminal event as
\* the [DONE] line produces it), and the turn continued.
C23_Witness ==
  /\ decision.made
  /\ ~decision.err
  /\ decision.deltas = 0
  /\ decision.seen = <<Some(StopReason), TerminalItem.reason>>
  /\ decision.reason = Some(LengthReason)
  /\ decision.cont
  /\ pc = "chatReq"

\* the messages of a history written out one per line as role, colon, space
\* and content, with a line feed between two lines
RECURSIVE Listing(_)
Listing(ms) ==
  IF ms = <<>> THEN <<>>
  ELSE LET line == PushStr(PushStr(RoleText(ms[1].role), Lit(<<":", " ">>)),
                           ms[1].content)
       IN IF Len(ms) = 1 THEN line
          ELSE PushStr(PushStr(line, Lit(<<"\n">>)), Listing(Tail(ms)))

\* C24: the chat request that follows a summarization step carries two
\* messages, the system message and the summary message, and the user input
\* of the turn is not one of them; the input is in the text given to the
\* summary request, which lists every message of the history in order, the
\* input last, and has no line for the system message.
C24_RequestAfterSummarization ==
  /\ [][(AfterSummarization /\ sent' # sent)
          => /\ sent'.kind = "chat"
             /\ Len(sent'.messages) = 2
             /\ sent'.messages
                  = <<SystemMessage, Msg("user", PushStr(SummaryMarker, summary))>>
             /\ \A i \in 1..Len(sent'.messages) :
                  sent'.messages[i] # turn.orig[Len(turn.orig)]]_vars
  /\ [](sent.kind = "summary"
          => /\ lastInput = "query"
             /\ sent.messages
                  = <<Msg("system", SummarySystemPrompt),
                      Msg("user", PushStr(SummaryPromptPrefix, Listing(turn.orig)))>>)

\* C24 witness: the summary stream delivered a text and ended, and the first
\* chat request of the turn went out with two messages.
C24_Witness ==
  /\ pc = "chatStream"
  /\ auto_continue_count = 0
  /\ turn.sum = "ok"
  /\ sent.kind = "chat"
  /\ Len(sent.messages) = 2
  /\ sent.messages[2].content # SummaryMarker

\* two messages of the role user follow each other
AdjacentUsers(ms) ==
  \E i \in 1..(Len(ms) - 1) : ms[i].role = "user" /\ ms[i + 1].role = "user"

\* C25: at the prompt the history is empty or ends with an assistant message,
\* and no chat request carries two user messages next to each other,
\* whatever errors the earlier turns met.
C25_HistoryAlternates ==
  /\ pc = "prompt"
       => (history = <<>> \/ history[Len(history)].role = "assistant")
  /\ sent.kind = "chat" => ~AdjacentUsers(sent.messages)

====
